---- MODULE Spec2Model ----
(***************************************************************************)
(* Reconstruction of text, key-value pairs and tables from Textract       *)
(* blocks (app_streamlit.py), as run by the result view:                   *)
(* extract_lines, then parse_kv_pairs, then parse_tables, on one loaded    *)
(* block collection (specification Spec); and the pipeline that produces   *)
(* the blocks: the ingest handler (specification Ingest), the callback     *)
(* handler with the manifest lookup and the page load of the result page   *)
(* (specification Results), and the result generators of TextractClient    *)
(* (specification Paginate).                                               *)
(*                                                                         *)
(* Strings are sequences of one-character strings, so that join, strip     *)
(* and concatenation are computed rather than assumed.  An optional        *)
(* dictionary entry (Id, RowIndex, ColumnIndex) is a sequence of length 0  *)
(* (key absent) or 1 (key present).  Text holds <<>> both for an absent    *)
(* and for an empty "Text": the code only ever tests its truthiness.       *)
(***************************************************************************)
EXTENDS Integers, Sequences, FiniteSets, TLC

VARIABLES
    all_blocks,   \* the loaded block collection (input of all three views)
    pc,           \* position of the result view in its sequence of calls
    text,         \* result of extract_lines
    kv_i,         \* parse_kv_pairs: number of KEY blocks already visited
    key_text,     \* parse_kv_pairs: key_text of the KEY block visited last
    val_text,     \* parse_kv_pairs: val_text of the KEY block visited last
    pairs,        \* parse_kv_pairs: pairs appended so far
    kv_pairs,     \* result of parse_kv_pairs (uniq)
    pt_i,         \* parse_tables: number of TABLE blocks already visited
    cells,        \* parse_tables: cells of the TABLE visited last
    grid,         \* parse_tables: grid of the TABLE visited last
    dataframes    \* parse_tables: data frames appended so far

VARIABLES
    store,        \* the bucket: object key -> [Body, LastModified]
    now,          \* the clock, in seconds
    jobs,         \* the Textract jobs started, in the order of their start
    written,      \* the audit events whose write has succeeded, in order
    ingest,       \* the call of validate_and_start in progress, or the last
    cb,           \* the run of the callback handler in progress, or the last
    ui,           \* the manifest lookup of the result page
    gen           \* the result generator of TextractClient made last

\* the state of the pipeline (policy_reviewer_agent and the lookup of
\* app_streamlit.py)
pipe_vars == <<store, now, jobs, written, ingest, cb, ui, gen>>

vars == <<all_blocks, pc, text, kv_i, key_text, val_text, pairs, kv_pairs,
          pt_i, cells, grid, dataframes, pipe_vars>>

-----------------------------------------------------------------------------
(* Bounds of the explored inputs *)

\* largest RowIndex / ColumnIndex a generated CELL carries
MaxIndex == 2
\* largest number of ids in one generated relationship entry of a block whose
\* text is reduced
MaxChildIds == 3
\* largest number of blocks of a generated collection of LINE and WORD blocks
MaxLines == 3

-----------------------------------------------------------------------------
(* Strings *)

\* sep.join(parts)
RECURSIVE Join(_, _)
Join(parts, sep) ==
    IF parts = <<>> THEN <<>>
    ELSE IF Len(parts) = 1 THEN parts[1]
    ELSE parts[1] \o sep \o Join(Tail(parts), sep)

RECURSIVE LStrip(_)
LStrip(s) == IF s # <<>> /\ Head(s) = " " THEN LStrip(Tail(s)) ELSE s

RECURSIVE RStrip(_)
RStrip(s) ==
    IF s # <<>> /\ s[Len(s)] = " " THEN RStrip(SubSeq(s, 1, Len(s) - 1)) ELSE s

\* str.strip()
Strip(s) == RStrip(LStrip(s))

\* str(n) for n >= 0
RECURSIVE Digits(_)
Digits(n) ==
    LET d == <<"0", "1", "2", "3", "4", "5", "6", "7", "8", "9">>
    IN  IF n < 10 THEN <<d[n + 1]>> ELSE Digits(n \div 10) \o <<d[(n % 10) + 1]>>

-----------------------------------------------------------------------------
(* Blocks *)

\* a Textract block with none of the optional entries
NoBlock ==
    [Id |-> <<>>, BlockType |-> "", Text |-> <<>>, SelectionStatus |-> "",
     EntityTypes |-> {}, RowIndex |-> <<>>, ColumnIndex |-> <<>>,
     Relationships |-> <<>>]

Rel(type, ids) == [Type |-> type, Ids |-> ids]

Word(id, txt) ==
    [NoBlock EXCEPT !.Id = <<id>>, !.BlockType = "WORD", !.Text = txt]

Line(id, txt) ==
    [NoBlock EXCEPT !.Id = <<id>>, !.BlockType = "LINE", !.Text = txt]

Selection(id, status) ==
    [NoBlock EXCEPT !.Id = <<id>>, !.BlockType = "SELECTION_ELEMENT",
                    !.SelectionStatus = status]

KeyValueSet(id, role, rels) ==
    [NoBlock EXCEPT !.Id = <<id>>, !.BlockType = "KEY_VALUE_SET",
                    !.EntityTypes = {role}, !.Relationships = rels]

Table(optId, rels) ==
    [NoBlock EXCEPT !.Id = optId, !.BlockType = "TABLE", !.Relationships = rels]

Cell(id, row, col, rels) ==
    [NoBlock EXCEPT !.Id = <<id>>, !.BlockType = "CELL", !.RowIndex = row,
                    !.ColumnIndex = col, !.Relationships = rels]

\* dict.get(key, default) on an optional entry
Get(opt, default) == IF opt = <<>> THEN default ELSE opt[1]

\* _block_map keeping, for an Id that repeats, the first block that carries it
FirstBlockMap(blocks) ==
    LET withId == {i \in 1..Len(blocks) : blocks[i].Id # <<>>}
        first(id) == CHOOSE i \in withId :
                         /\ blocks[i].Id = <<id>>
                         /\ \A j \in withId : blocks[j].Id = <<id>> => i <= j
    IN  [id \in {blocks[i].Id[1] : i \in withId} |-> blocks[first(id)]]

\* {b["Id"]: b for b in blocks if "Id" in b}: a later block replaces an
\* earlier one that carries the same Id
_block_map(blocks) ==
    LET withId == {i \in 1..Len(blocks) : blocks[i].Id # <<>>}
        last(id) == CHOOSE i \in withId :
                        /\ blocks[i].Id = <<id>>
                        /\ \A j \in withId : blocks[j].Id = <<id>> => j <= i
    IN  [id \in {blocks[i].Id[1] : i \in withId} |-> blocks[last(id)]]

-----------------------------------------------------------------------------
(* _text_from_block *)

\* for cid in rel.get("Ids", []): the tokens appended for one CHILD entry
RECURSIVE ChildTexts(_, _)
ChildTexts(ids, id_to_block) ==
    IF ids = <<>> THEN <<>>
    ELSE LET cid  == Head(ids)
             rest == ChildTexts(Tail(ids), id_to_block)
         IN  IF cid \notin DOMAIN id_to_block THEN rest
             ELSE LET child == id_to_block[cid]
                  IN  IF child.BlockType = "WORD" /\ child.Text # <<>>
                        THEN <<child.Text>> \o rest
                      ELSE IF child.BlockType = "SELECTION_ELEMENT"
                        THEN IF child.SelectionStatus = "SELECTED"
                               THEN <<(<<"[", "X", "]">>)>> \o rest
                               ELSE <<(<<"[", " ", "]">>)>> \o rest
                      ELSE rest

\* for rel in block.get("Relationships", []) or []: the list texts
RECURSIVE RelTexts(_, _)
RelTexts(rels, id_to_block) ==
    IF rels = <<>> THEN <<>>
    ELSE (IF Head(rels).Type = "CHILD"
            THEN ChildTexts(Head(rels).Ids, id_to_block)
            ELSE <<>>)
         \o RelTexts(Tail(rels), id_to_block)

\* _text_from_block without the test rel.get("Type") == "CHILD": the ids of
\* every entry are walked
RECURSIVE AnyRelTexts(_, _)
AnyRelTexts(rels, id_to_block) ==
    IF rels = <<>> THEN <<>>
    ELSE ChildTexts(Head(rels).Ids, id_to_block)
         \o AnyRelTexts(Tail(rels), id_to_block)

TextFromAnyEntry(block, id_to_block) ==
    Strip(Join(AnyRelTexts(block.Relationships, id_to_block), <<" ">>))

_text_from_block(block, id_to_block) ==
    Strip(Join(RelTexts(block.Relationships, id_to_block), <<" ">>))

-----------------------------------------------------------------------------
(* extract_lines *)

\* extract_lines keeping only the first of several equal texts
ExtractDistinctLines(blocks) ==
    LET lines == SelectSeq(blocks,
                     LAMBDA b : b.BlockType = "LINE" /\ b.Text # <<>>)
        first == {i \in 1..Len(lines) :
                     \A j \in 1..(i - 1) : lines[j].Text # lines[i].Text}
        RECURSIVE Kept(_)
        Kept(i) == IF i > Len(lines) THEN <<>>
                   ELSE (IF i \in first THEN <<lines[i].Text>> ELSE <<>>)
                        \o Kept(i + 1)
    IN  Join(Kept(1), <<"\n">>)

extract_lines(blocks) ==
    LET lines == SelectSeq(blocks,
                     LAMBDA b : b.BlockType = "LINE" /\ b.Text # <<>>)
    IN  Join([i \in 1..Len(lines) |-> lines[i].Text], <<"\n">>)

-----------------------------------------------------------------------------
(* parse_kv_pairs *)

\* keys / values: the KEY_VALUE_SET blocks of each role, in input order
KeyBlocks(blocks) ==
    SelectSeq(blocks,
        LAMBDA b : b.BlockType = "KEY_VALUE_SET" /\ "KEY" \in b.EntityTypes)

ValueBlocks(blocks) ==
    SelectSeq(blocks,
        LAMBDA b : b.BlockType = "KEY_VALUE_SET" /\ "VALUE" \in b.EntityTypes)

\* value_by_id = {b["Id"]: b for b in values if "Id" in b}
value_by_id(blocks) ==
    LET values == ValueBlocks(blocks)
        withId == {i \in 1..Len(values) : values[i].Id # <<>>}
        last(id) == CHOOSE i \in withId :
                        /\ values[i].Id = <<id>>
                        /\ \A j \in withId : values[j].Id = <<id>> => j <= i
    IN  [id \in {values[i].Id[1] : i \in withId} |-> values[last(id)]]

\* for vid in rel.get("Ids", []): ... break  -- val_text after one VALUE entry
RECURSIVE ValueEntryText(_, _, _, _)
ValueEntryText(ids, by_id, id_map, cur) ==
    IF ids = <<>> THEN cur
    ELSE IF Head(ids) \in DOMAIN by_id
           THEN _text_from_block(by_id[Head(ids)], id_map)
           ELSE ValueEntryText(Tail(ids), by_id, id_map, cur)

\* for rel in k.get("Relationships", []) or []: val_text after all entries;
\* the break above leaves the inner loop only
RECURSIVE ValueText(_, _, _, _)
ValueText(rels, by_id, id_map, cur) ==
    IF rels = <<>> THEN cur
    ELSE ValueText(Tail(rels), by_id, id_map,
             IF Head(rels).Type = "VALUE"
               THEN ValueEntryText(Head(rels).Ids, by_id, id_map, cur)
               ELSE cur)

\* the append under "if key_text and val_text"
AppendPairBoth(ps, kt, vt) ==
    IF kt # <<>> /\ vt # <<>> THEN Append(ps, <<kt, vt>>) ELSE ps

\* if key_text or val_text: pairs.append((key_text, val_text))
AppendPair(ps, kt, vt) ==
    IF kt # <<>> \/ vt # <<>> THEN Append(ps, <<kt, vt>>) ELSE ps

\* the de-duplication without "if sig in seen: continue"
UniqAll(ps, seen, uniq) == uniq \o ps

\* de-dup while preserving order
RECURSIVE Uniq(_, _, _)
Uniq(ps, seen, uniq) ==
    IF ps = <<>> THEN uniq
    ELSE IF Head(ps) \in seen
           THEN Uniq(Tail(ps), seen, uniq)
           ELSE Uniq(Tail(ps), seen \cup {Head(ps)}, Append(uniq, Head(ps)))

-----------------------------------------------------------------------------
(* parse_tables *)

TableBlocks(blocks) == SelectSeq(blocks, LAMBDA b : b.BlockType = "TABLE")

\* cell_ids: the Ids of the TABLE's CHILD entries, concatenated
RECURSIVE CellIds(_)
CellIds(rels) ==
    IF rels = <<>> THEN <<>>
    ELSE (IF Head(rels).Type = "CHILD" THEN Head(rels).Ids ELSE <<>>)
         \o CellIds(Tail(rels))

\* [id_map[cid] for cid in cell_ids if id_map.get(cid) and ... == "CELL"]
RECURSIVE ResolveCells(_, _)
ResolveCells(ids, id_map) ==
    IF ids = <<>> THEN <<>>
    ELSE (IF Head(ids) \in DOMAIN id_map /\ id_map[Head(ids)].BlockType = "CELL"
            THEN <<id_map[Head(ids)]>>
            ELSE <<>>)
         \o ResolveCells(Tail(ids), id_map)

SetMax(S) == CHOOSE m \in S : \A x \in S : x <= m

\* max(c.get("RowIndex", 0) for c in cells), likewise for ColumnIndex
MaxRow(cs) == SetMax({Get(cs[i].RowIndex, 0) : i \in 1..Len(cs)})
MaxCol(cs) == SetMax({Get(cs[i].ColumnIndex, 0) : i \in 1..Len(cs)})

\* the grid allocated with rows and columns exchanged
EmptyGridTransposed(max_row, max_col) ==
    [r \in 1..max_col |-> [c \in 1..max_row |-> <<>>]]

\* [["" for _ in range(max_col)] for _ in range(max_row)]
EmptyGrid(max_row, max_col) ==
    [r \in 1..max_row |-> [c \in 1..max_col |-> <<>>]]

\* a Python list index i on a list of length n: in range iff -n <= i < n;
\* a negative index counts from the end.  The position is 1-based here.
InRange(i, n) == -n <= i /\ i < n
Position(i, n) == IF i >= 0 THEN i + 1 ELSE n + i + 1

\* the placement that stores the new text whatever the spot holds
MergeCellOverwrite(old, txt) == txt

\* if grid[r][cidx]: append after " | " (and strip) else: store
MergeCell(old, txt) ==
    IF old # <<>> THEN Strip(old \o <<" ", "|", " ">> \o txt) ELSE txt

\* for c in cells: the grid after the placements, or IndexError
RECURSIVE PlaceCells(_, _, _)
PlaceCells(cs, g, id_map) ==
    IF cs = <<>> THEN [raised |-> FALSE, grid |-> g]
    ELSE LET c    == Head(cs)
             r    == Get(c.RowIndex, 1) - 1
             cidx == Get(c.ColumnIndex, 1) - 1
             txt  == _text_from_block(c, id_map)
         IN  IF ~InRange(r, Len(g)) THEN [raised |-> TRUE, grid |-> g]
             ELSE LET ri == Position(r, Len(g))
                  IN  IF ~InRange(cidx, Len(g[ri]))
                        THEN [raised |-> TRUE, grid |-> g]
                        ELSE LET ci == Position(cidx, Len(g[ri]))
                             IN  PlaceCells(Tail(cs),
                                     [g EXCEPT ![ri][ci] = MergeCell(@, txt)],
                                     id_map)

\* column labels: pandas' default labels are the integers 0..N-1; a promoted
\* header cell is a string
IntLabel(n) == [int |-> n]
StrLabel(s) == [str |-> s]

\* f"Col{i+1}" for the 0-based i of enumerate; n is i+1
ColName(n) == <<"C", "o", "l">> \o Digits(n)

\* the header promotion without df = df[1:]: row 0 stays among the rows
DataFrameKeepsHeaderRow(g) ==
    LET ncols == IF g = <<>> THEN 0 ELSE Len(g[1])
    IN  IF Len(g) > 1 /\ \E i \in 1..ncols : Len(g[1][i]) > 0
          THEN [columns |-> [i \in 1..ncols |->
                               IF g[1][i] # <<>> THEN StrLabel(g[1][i])
                                                 ELSE StrLabel(ColName(i))],
                rows    |-> g]
          ELSE [columns |-> [i \in 1..ncols |-> IntLabel(i - 1)],
                rows    |-> g]

\* df = pd.DataFrame(grid), then the header promotion
DataFrame(g) ==
    LET ncols == IF g = <<>> THEN 0 ELSE Len(g[1])
    IN  IF Len(g) > 1 /\ \E i \in 1..ncols : Len(g[1][i]) > 0
          THEN [columns |-> [i \in 1..ncols |->
                               IF g[1][i] # <<>> THEN StrLabel(g[1][i])
                                                 ELSE StrLabel(ColName(i))],
                rows    |-> SubSeq(g, 2, Len(g))]
          ELSE [columns |-> [i \in 1..ncols |-> IntLabel(i - 1)],
                rows    |-> g]

-----------------------------------------------------------------------------
(* The block collections explored.  Ids are opaque strings; "zz" is an id   *)
(* that no block carries.                                                  *)

\* the sequences over pool of length lo..hi
IdSeqs(pool, lo, hi) == UNION {[1..n -> pool] : n \in lo..hi}

OptIndex == {<<>>} \cup {<<n>> : n \in 1..MaxIndex}

ChildOf(pool) == {<<>>} \cup {<<Rel("CHILD", <<w>>)>> : w \in pool}

\* a block whose CHILD entries name words (clean, empty, blank, padded), a
\* selection element, a block of another type with a word of its own, and
\* an absent id
TextRels ==
    LET pool == {"w1", "s1", "c1", "zz"}
    IN  {<<>>}
        \cup {<<Rel(t, ids)>> : t \in {"CHILD", "VALUE"},
                                ids \in IdSeqs(pool, 0, MaxChildIds)}
        \cup {<<Rel(t[1], <<x[1]>>), Rel(t[2], <<x[2]>>)>> :
                  t \in [1..2 -> {"CHILD", "VALUE"}], x \in [1..2 -> pool]}

TextDoc(rels, t1, st) ==
    <<KeyValueSet("k1", "KEY", rels),
      Word("w1", t1),
      Word("w2", <<"b">>),
      Selection("s1", st),
      Cell("c1", <<1>>, <<1>>, <<Rel("CHILD", <<"w2">>)>>)>>

\* KEY blocks whose VALUE entries name VALUE blocks, a KEY block, and an
\* absent id, in one entry or spread over two; the last block may repeat
\* the Id of an earlier VALUE block
ValueRels ==
    {<<>>}
    \cup {<<Rel("VALUE", ids)>> : ids \in IdSeqs({"v1", "v2", "zz", "k2"}, 1, 2)}
    \cup {<<Rel("VALUE", <<x>>), Rel("VALUE", <<y>>)>> :
              x \in {"v1", "v2", "zz"}, y \in {"v1", "v2", "zz"}}

ThirdKey ==
    {<<>>,
     <<KeyValueSet("k3", "KEY", <<Rel("CHILD", <<"w1">>),
                                  Rel("VALUE", <<"v1">>)>>)>>,
     <<KeyValueSet("k3", "KEY", <<Rel("CHILD", <<"w2">>)>>)>>}

RepeatedValue ==
    {<<>>, <<KeyValueSet("v1", "VALUE", <<Rel("CHILD", <<"w2">>)>>)>>}

KvDoc(kc1, kv1, kc2, kv2, k3, vc1, dup) ==
    <<KeyValueSet("k1", "KEY", kc1 \o kv1),
      KeyValueSet("k2", "KEY", kc2 \o kv2)>>
    \o k3
    \o <<KeyValueSet("v1", "VALUE", vc1),
         KeyValueSet("v2", "VALUE", <<Rel("CHILD", <<"w2">>)>>),
         Word("w1", <<"a">>),
         Word("w2", <<"b">>)>>
    \o dup

\* a TABLE over two CELLs (indices present or absent, text or none), a word
\* and an absent id, optionally followed by a second TABLE, which has no Id
TableRels ==
    {<<>>, <<Rel("VALUE", <<"c1">>)>>}
    \cup {<<Rel("CHILD", ids)>> : ids \in IdSeqs({"c1", "c2", "w1", "zz"}, 1, 2)}
    \cup {<<Rel("CHILD", <<x>>), Rel("CHILD", <<y>>)>> :
              x \in {"c1", "c2"}, y \in {"c1", "c2"}}

SecondTable == {<<>>, <<Table(<<>>, <<Rel("CHILD", <<"c2">>)>>)>>}

TableDoc(rels, r1, k1, ch1, r2, k2, more) ==
    <<Table(<<"t1">>, rels),
      Cell("c1", r1, k1, ch1),
      Cell("c2", r2, k2, <<Rel("CHILD", <<"w2">>)>>),
      Word("w1", <<"a">>),
      Word("w2", <<"b">>)>>
    \o more

LineDocs ==
    IdSeqs({Line("l1", <<"a">>), Line("l2", <<"b">>), Line("l3", <<>>),
            Word("w1", <<"a">>)}, 0, MaxLines)

-----------------------------------------------------------------------------
(* The pipeline before its first call *)

\* no call of validate_and_start yet
IdleIngest ==
    [phase |-> "idle", key |-> <<>>, job_id |-> <<>>, outcome |-> "none"]

\* no run of the callback handler yet
IdleCallback ==
    [phase |-> "idle", status |-> <<>>, job_id |-> <<>>, source_key |-> <<>>,
     ts |-> <<>>, token |-> <<>>, more |-> FALSE, fetched |-> 0,
     page_uris |-> <<>>, outcome |-> "none", failed |-> "", handled |-> {}]

\* no lookup yet
IdleLookup == [source_key |-> <<>>, found |-> <<>>, loaded |-> "no"]

\* no generator made yet
NoGenerator ==
    [phase |-> "none", api |-> "", job_id |-> <<>>, pages |-> 0, last |-> <<>>,
     token |-> <<>>, requests |-> <<>>, yielded |-> <<>>, outcome |-> "none",
     cause |-> ""]

\* an empty bucket, no job, no event, no call
PipelineAtRest ==
    /\ store = <<>>
    /\ now = 0
    /\ jobs = <<>>
    /\ written = <<>>
    /\ ingest = IdleIngest
    /\ cb = IdleCallback
    /\ ui = IdleLookup
    /\ gen = NoGenerator

-----------------------------------------------------------------------------
(* The result view: extract_lines, parse_kv_pairs, parse_tables in turn *)

\* all_blocks as load_all_blocks_from_pages returns it
Loaded ==
    \/ \E rels \in TextRels, t1 \in {<<>>, <<"a">>, <<" ">>, <<" ", "a">>},
          st \in {"SELECTED", "NOT_SELECTED"} :
           all_blocks = TextDoc(rels, t1, st)
    \/ \E kc1 \in ChildOf({"w1", "w2"}), kv1 \in ValueRels,
          kc2 \in ChildOf({"w1"}),
          kv2 \in {<<>>, <<Rel("VALUE", <<"v1">>)>>, <<Rel("VALUE", <<"v2">>)>>},
          k3 \in ThirdKey, vc1 \in ChildOf({"w1"}), dup \in RepeatedValue :
           all_blocks = KvDoc(kc1, kv1, kc2, kv2, k3, vc1, dup)
    \/ \E rels \in TableRels, r1 \in OptIndex, k1 \in OptIndex,
          ch1 \in ChildOf({"w1"}), r2 \in OptIndex, k2 \in OptIndex,
          more \in SecondTable :
           all_blocks = TableDoc(rels, r1, k1, ch1, r2, k2, more)
    \/ all_blocks \in LineDocs

Init ==
    /\ Loaded
    /\ PipelineAtRest
    /\ pc = "start"
    /\ text = <<>>
    /\ kv_i = 0
    /\ key_text = <<>>
    /\ val_text = <<>>
    /\ pairs = <<>>
    /\ kv_pairs = <<>>
    /\ pt_i = 0
    /\ cells = <<>>
    /\ grid = <<>>
    /\ dataframes = <<>>

\* extract_lines filtering the list it is given in place
ExtractLinesInPlace ==
    /\ pc = "start"
    /\ text' = extract_lines(all_blocks)
    /\ all_blocks' = SelectSeq(all_blocks, LAMBDA b : b.BlockType = "LINE")
    /\ pc' = "kv"
    /\ UNCHANGED pipe_vars
    /\ UNCHANGED <<kv_i, key_text, val_text, pairs, kv_pairs, pt_i, cells,
                   grid, dataframes>>

ExtractLines ==
    /\ pc = "start"
    /\ text' = extract_lines(all_blocks)
    /\ pc' = "kv"
    /\ UNCHANGED pipe_vars
    /\ UNCHANGED <<all_blocks, kv_i, key_text, val_text, pairs, kv_pairs,
                   pt_i, cells, grid, dataframes>>

\* one pass of "for k in keys"
KeyVisit ==
    /\ pc = "kv"
    /\ kv_i < Len(KeyBlocks(all_blocks))
    /\ LET k      == KeyBlocks(all_blocks)[kv_i + 1]
           id_map == _block_map(all_blocks)
           kt     == _text_from_block(k, id_map)
           vt     == ValueText(k.Relationships, value_by_id(all_blocks),
                               id_map, <<>>)
       IN  /\ key_text' = kt
           /\ val_text' = vt
           /\ pairs' = AppendPair(pairs, kt, vt)
    /\ kv_i' = kv_i + 1
    /\ UNCHANGED pipe_vars
    /\ UNCHANGED <<all_blocks, pc, text, kv_pairs, pt_i, cells, grid,
                   dataframes>>

\* the de-duplication and the return of parse_kv_pairs
KeysReturn ==
    /\ pc = "kv"
    /\ kv_i = Len(KeyBlocks(all_blocks))
    /\ kv_pairs' = Uniq(pairs, {}, <<>>)
    /\ pc' = "tables"
    /\ UNCHANGED pipe_vars
    /\ UNCHANGED <<all_blocks, text, kv_i, key_text, val_text, pairs, pt_i,
                   cells, grid, dataframes>>

\* the cells of the TABLE visited next
NextCells ==
    ResolveCells(CellIds(TableBlocks(all_blocks)[pt_i + 1].Relationships),
                 _block_map(all_blocks))

\* the placements of the TABLE visited next
NextPlaced ==
    PlaceCells(NextCells,
               EmptyGrid(MaxRow(NextCells), MaxCol(NextCells)),
               _block_map(all_blocks))

\* one pass of "for tbl in tables": if not cells: continue
TableSkip ==
    /\ pc = "tables"
    /\ pt_i < Len(TableBlocks(all_blocks))
    /\ NextCells = <<>>
    /\ cells' = <<>>
    /\ pt_i' = pt_i + 1
    /\ UNCHANGED pipe_vars
    /\ UNCHANGED <<all_blocks, pc, text, kv_i, key_text, val_text, pairs,
                   kv_pairs, grid, dataframes>>

\* one pass of "for tbl in tables": grid[r][cidx] raises IndexError
TableRaise ==
    /\ pc = "tables"
    /\ pt_i < Len(TableBlocks(all_blocks))
    /\ NextCells # <<>>
    /\ NextPlaced.raised
    /\ cells' = NextCells
    /\ grid' = NextPlaced.grid
    /\ pc' = "raised"
    /\ UNCHANGED pipe_vars
    /\ UNCHANGED <<all_blocks, text, kv_i, key_text, val_text, pairs,
                   kv_pairs, pt_i, dataframes>>

\* one pass of "for tbl in tables": the grid is built and its frame appended
TableAppend ==
    /\ pc = "tables"
    /\ pt_i < Len(TableBlocks(all_blocks))
    /\ NextCells # <<>>
    /\ ~NextPlaced.raised
    /\ cells' = NextCells
    /\ grid' = NextPlaced.grid
    /\ dataframes' = Append(dataframes, DataFrame(NextPlaced.grid))
    /\ pt_i' = pt_i + 1
    /\ UNCHANGED pipe_vars
    /\ UNCHANGED <<all_blocks, pc, text, kv_i, key_text, val_text, pairs,
                   kv_pairs>>

\* return dataframes
TablesReturn ==
    /\ pc = "tables"
    /\ pt_i = Len(TableBlocks(all_blocks))
    /\ pc' = "done"
    /\ UNCHANGED pipe_vars
    /\ UNCHANGED <<all_blocks, text, kv_i, key_text, val_text, pairs,
                   kv_pairs, pt_i, cells, grid, dataframes>>

Next ==
    \/ ExtractLines
    \/ KeyVisit
    \/ KeysReturn
    \/ TableSkip
    \/ TableRaise
    \/ TableAppend
    \/ TablesReturn

Spec == Init /\ [][Next]_vars

-----------------------------------------------------------------------------
(* Vocabulary of the properties, stated over the input alone *)

Range(seq) == {seq[i] : i \in 1..Len(seq)}

RECURSIVE Flatten(_)
Flatten(ss) == IF ss = <<>> THEN <<>> ELSE Head(ss) \o Flatten(Tail(ss))

Last(seq) == seq[Len(seq)]

\* some block carries the id; the block an id stands for is the last such
Carried(id) == \E i \in 1..Len(all_blocks) : all_blocks[i].Id = <<id>>
BlockOf(id) ==
    all_blocks[CHOOSE i \in 1..Len(all_blocks) :
                   /\ all_blocks[i].Id = <<id>>
                   /\ \A j \in (i + 1)..Len(all_blocks) : all_blocks[j].Id # <<id>>]

\* the ids of the entries of one type, entry after entry
IdsOfType(block, type) ==
    LET rels == block.Relationships
    IN  Flatten([i \in 1..Len(rels) |->
                    IF rels[i].Type = type THEN rels[i].Ids ELSE <<>>])

\* the token one child id gives: none, or one
TokenOf(id) ==
    IF ~Carried(id) THEN <<>>
    ELSE LET child == BlockOf(id)
         IN  CASE child.BlockType = "WORD" /\ child.Text # <<>> -> <<child.Text>>
               [] child.BlockType = "SELECTION_ELEMENT"
                  /\ child.SelectionStatus = "SELECTED" -> <<(<<"[", "X", "]">>)>>
               [] child.BlockType = "SELECTION_ELEMENT"
                  /\ child.SelectionStatus # "SELECTED" -> <<(<<"[", " ", "]">>)>>
               [] OTHER -> <<>>

\* the tokens of the direct children of a block
Tokens(block) ==
    LET ids == IdsOfType(block, "CHILD")
    IN  Flatten([i \in 1..Len(ids) |-> TokenOf(ids[i])])

\* the text of a block: its tokens joined by one space, trimmed
TextOf(block) == Strip(Join(Tokens(block), <<" ">>))

\* the id stands for a VALUE-role block: the last VALUE block carrying it
IsValue(b) == b.BlockType = "KEY_VALUE_SET" /\ "VALUE" \in b.EntityTypes
Resolvable(id) ==
    \E i \in 1..Len(all_blocks) : all_blocks[i].Id = <<id>> /\ IsValue(all_blocks[i])
ValueOf(id) ==
    all_blocks[CHOOSE i \in 1..Len(all_blocks) :
                   /\ all_blocks[i].Id = <<id>> /\ IsValue(all_blocks[i])
                   /\ \A j \in (i + 1)..Len(all_blocks) :
                          ~(all_blocks[j].Id = <<id>> /\ IsValue(all_blocks[j]))]

\* the KEY block visited last by parse_kv_pairs
VisitedKey == KeyBlocks(all_blocks)[kv_i]

\* the text of the first resolvable VALUE target of a KEY block, "" if none
FirstValueText(k) ==
    LET ids == IdsOfType(k, "VALUE")
        ok  == {i \in 1..Len(ids) : Resolvable(ids[i])}
    IN  IF ok = {} THEN <<>>
        ELSE TextOf(ValueOf(ids[CHOOSE i \in ok : \A j \in ok : i <= j]))

NoResolvableValue(k) ==
    \A i \in 1..Len(IdsOfType(k, "VALUE")) : ~Resolvable(IdsOfType(k, "VALUE")[i])

-----------------------------------------------------------------------------
(* C1 *)

\* C1: for every block collection, extract_lines, parse_kv_pairs and
\* parse_tables each return a result; none of them ends in an exception.
C1_NoException == pc # "raised"

-----------------------------------------------------------------------------
(* C2 *)

\* C2: for every KEY block, the value text is the reduced text of the first
\* resolvable VALUE target, scanning the VALUE entries in order and the ids
\* inside each entry in order; a later entry never replaces the value
\* resolved from an earlier one.
C2_FirstResolvableValue ==
    kv_i > 0 => val_text = FirstValueText(VisitedKey)

-----------------------------------------------------------------------------
(* C8 *)

\* what parse_kv_pairs resolves for a KEY block: the first resolvable id of
\* the last VALUE entry that holds a resolvable id, "" if there is none
EntryValueText(k) ==
    LET rels == k.Relationships
        ok   == {i \in 1..Len(rels) :
                    /\ rels[i].Type = "VALUE"
                    /\ \E n \in 1..Len(rels[i].Ids) : Resolvable(rels[i].Ids[n])}
    IN  IF ok = {} THEN <<>>
        ELSE LET ids == rels[CHOOSE i \in ok : \A j \in ok : j <= i].Ids
                 n   == CHOOSE m \in 1..Len(ids) :
                            /\ Resolvable(ids[m])
                            /\ \A l \in 1..(m - 1) : ~Resolvable(ids[l])
             IN  TextOf(ValueOf(ids[n]))

\* the (key text, value text) of the KEY blocks visited so far, in order
VisitedPairs ==
    [j \in 1..kv_i |-> <<TextOf(KeyBlocks(all_blocks)[j]),
                         EntryValueText(KeyBlocks(all_blocks)[j])>>]

\* C8: a KEY block contributes a pair if and only if its key text or its
\* value text is non-empty, and a KEY block with non-empty key text and no
\* resolvable VALUE target contributes (key_text, "").
C8_PairIffNonEmpty ==
    /\ pairs = SelectSeq(VisitedPairs, LAMBDA p : p[1] # <<>> \/ p[2] # <<>>)
    /\ (kv_i > 0 /\ key_text # <<>> /\ NoResolvableValue(VisitedKey))
           => (pairs # <<>> /\ Last(pairs) = <<key_text, <<>>>>)

\* the first KEY block has no text at all and contributes nothing; the second
\* has key text and no resolvable VALUE target
C8_Witness ==
    /\ kv_i = 2
    /\ VisitedPairs[1] = <<(<<>>), (<<>>)>>
    /\ key_text # <<>>
    /\ NoResolvableValue(VisitedKey)
    /\ pairs = <<(<<key_text, <<>>>>)>>

-----------------------------------------------------------------------------
(* C9 *)

\* parse_kv_pairs has returned
KvReturned == pc \in {"tables", "done", "raised"}

FirstIndex(seq, x) ==
    CHOOSE i \in 1..Len(seq) : seq[i] = x /\ \A j \in 1..(i - 1) : seq[j] # x

\* C9: the returned sequence holds no two equal pairs, holds every pair some
\* KEY block contributed, and orders the pairs by their first contributing
\* KEY block.
C9_DistinctInFirstOrder ==
    KvReturned =>
        /\ \A i, j \in 1..Len(kv_pairs) : i # j => kv_pairs[i] # kv_pairs[j]
        /\ Range(kv_pairs) = Range(pairs)
        /\ \A i, j \in 1..Len(kv_pairs) :
               i < j => FirstIndex(pairs, kv_pairs[i]) < FirstIndex(pairs, kv_pairs[j])

\* three KEY blocks contribute; the third repeats the pair of the first
C9_Witness ==
    /\ KvReturned
    /\ Len(pairs) = 3
    /\ pairs[1] = pairs[3]
    /\ pairs[1] # pairs[2]
    /\ kv_pairs = <<pairs[1], pairs[2]>>

-----------------------------------------------------------------------------
(* C10 *)

\* C10 as stated: the result of _text_from_block is the space-joined
\* sequence of the tokens of the direct children, in entry and id order.
C10_TextIsJoin ==
    kv_i > 0 => key_text = Join(Tokens(VisitedKey), <<" ">>)

\* C10 as amended: the result of _text_from_block is the space-joined
\* sequence of the tokens of the direct children, in entry and id order,
\* with leading and trailing blanks removed.
C10_TextIsTrimmedJoin ==
    kv_i > 0 => key_text = Strip(Join(Tokens(VisitedKey), <<" ">>))

\* a word, a selected element and the word again give "a [X] a"
C10_Witness ==
    /\ kv_i > 0
    /\ Len(Tokens(VisitedKey)) = 3
    /\ key_text = <<"a", " ", "[", "X", "]", " ", "a">>

-----------------------------------------------------------------------------
(* Vocabulary of the table properties *)

\* cells and grid are those of one TABLE whose grid was built
GridBuilt == pc \in {"tables", "done"} /\ cells # <<>>

\* grid is the grid of the data frame appended last
FrameBuilt == pc \in {"tables", "done"} /\ dataframes # <<>>

\* the 1-based grid position a CELL is written to (an absent index counts
\* as 1)
WritePos(c) == <<Get(c.RowIndex, 1), Get(c.ColumnIndex, 1)>>

\* the texts of the cells written to position p, in the order of the writes
TextsAt(p) ==
    LET at == SelectSeq([i \in 1..Len(cells) |-> i],
                        LAMBDA i : WritePos(cells[i]) = p)
    IN  [n \in 1..Len(at) |-> TextOf(cells[at[n]])]

\* the positions written more than once
Collisions ==
    {p \in {WritePos(cells[i]) : i \in 1..Len(cells)} : Len(TextsAt(p)) > 1}

IsInfix(x, y) ==
    \E a \in 0..(Len(y) - Len(x)) : SubSeq(y, a + 1, a + Len(x)) = x

-----------------------------------------------------------------------------
(* C3 *)

\* C3 as stated: at a position written more than once, each later write
\* stores the previous content, then " | ", then the new text, whatever the
\* texts are: the position holds the texts joined by " | ".
C3_CollisionsJoined ==
    GridBuilt =>
        \A p \in Collisions : grid[p[1]][p[2]] = Join(TextsAt(p), <<" ", "|", " ">>)

\* the content after the writes of texts onto content: onto non-empty
\* content a write stores content, " | ", text, trimmed; onto empty content
\* it stores the text alone
RECURSIVE Merged(_, _)
Merged(content, texts) ==
    IF texts = <<>> THEN content
    ELSE Merged(IF content = <<>>
                  THEN Head(texts)
                  ELSE Strip(content \o <<" ", "|", " ">> \o Head(texts)),
                Tail(texts))

\* C3 as amended: at a position written more than once, a later write onto
\* non-empty content stores the previous content, then " | ", then the new
\* text, trimmed of surrounding blanks (an empty new text leaves "prev |");
\* a later write onto empty content stores the new text alone, without
\* separator.  Non-empty earlier content is never overwritten.
C3_CollisionsMerged ==
    GridBuilt =>
        \A p \in Collisions :
            /\ grid[p[1]][p[2]] = Merged(<<>>, TextsAt(p))
            /\ \A n \in 1..Len(TextsAt(p)) : IsInfix(TextsAt(p)[n], grid[p[1]][p[2]])

\* two cells with texts "a" and "b" written to the same position
C3_Witness ==
    /\ GridBuilt
    /\ <<1, 1>> \in Collisions
    /\ TextsAt(<<1, 1>>) = <<(<<"a">>), (<<"b">>)>>
    /\ grid[1][1] = <<"a", " ", "|", " ", "b">>

-----------------------------------------------------------------------------
(* C4 *)

\* C4: when the grid has exactly one row, or its first row holds only empty
\* cells, the table is emitted with all of its rows unmodified and with the
\* column labels Col1, Col2, ..., ColN.
C4_PositionalLabels ==
    (FrameBuilt /\ (Len(grid) = 1 \/ \A i \in 1..Len(grid[1]) : grid[1][i] = <<>>))
        => /\ Last(dataframes).rows = grid
           /\ Last(dataframes).columns =
                  [i \in 1..Len(grid[1]) |-> [str |-> <<"C", "o", "l">> \o Digits(i)]]

-----------------------------------------------------------------------------
(* C5 *)

\* C5: when the grid has more than one row and row 0 has a non-empty cell,
\* row 0 becomes the header, an empty header cell of column i (0-based)
\* becomes "Col{i+1}", and the emitted data rows are the grid rows 1..R-1
\* in their order.
C5_HeaderPromoted ==
    (FrameBuilt /\ Len(grid) > 1 /\ \E i \in 1..Len(grid[1]) : grid[1][i] # <<>>)
        => /\ Last(dataframes).columns =
                  [i \in 1..Len(grid[1]) |->
                      IF grid[1][i] # <<>>
                        THEN [str |-> grid[1][i]]
                        ELSE [str |-> <<"C", "o", "l">> \o Digits(i)]]
           /\ Last(dataframes).rows = [j \in 1..(Len(grid) - 1) |-> grid[j + 1]]

\* a two-row grid whose first row is ["", "b"]: header ["Col1", "b"] and
\* one data row
C5_Witness ==
    /\ FrameBuilt
    /\ Len(grid) = 2
    /\ grid[1] = <<(<<>>), (<<"b">>)>>
    /\ Last(dataframes).columns = <<[str |-> <<"C", "o", "l", "1">>], [str |-> <<"b">>]>>
    /\ Last(dataframes).rows = <<grid[2]>>

-----------------------------------------------------------------------------
(* C6 *)

\* every resolved CELL carries RowIndex >= 1 and ColumnIndex >= 1
CellsIndexed ==
    /\ cells # <<>>
    /\ \A i \in 1..Len(cells) :
           /\ cells[i].RowIndex # <<>> /\ cells[i].RowIndex[1] >= 1
           /\ cells[i].ColumnIndex # <<>> /\ cells[i].ColumnIndex[1] >= 1

\* C6: for a table whose resolved CELLs all carry RowIndex >= 1 and
\* ColumnIndex >= 1, the grid built before the header promotion has (max
\* RowIndex) rows of (max ColumnIndex) columns, each cell's text is at
\* (RowIndex, ColumnIndex) -- alone there when no other cell maps to the
\* position -- and every position no cell maps to holds "".
C6_GridShape ==
    (pc # "start" /\ CellsIndexed) =>
        LET rows == {cells[i].RowIndex[1] : i \in 1..Len(cells)}
            cols == {cells[i].ColumnIndex[1] : i \in 1..Len(cells)}
        IN  /\ pc # "raised"
            /\ Len(grid) = SetMax(rows)
            /\ \A r \in 1..Len(grid) : Len(grid[r]) = SetMax(cols)
            /\ \A r \in 1..Len(grid) : \A c \in 1..Len(grid[r]) :
                   /\ Len(TextsAt(<<r, c>>)) = 0 => grid[r][c] = <<>>
                   /\ Len(TextsAt(<<r, c>>)) = 1 => grid[r][c] = TextsAt(<<r, c>>)[1]
            /\ \A i \in 1..Len(cells) :
                   IsInfix(TextOf(cells[i]),
                           grid[cells[i].RowIndex[1]][cells[i].ColumnIndex[1]])

\* cells at (1,2) and (2,1) only: a 2 x 2 grid with two positions left empty
C6_Witness ==
    /\ GridBuilt
    /\ CellsIndexed
    /\ Len(cells) = 2
    /\ grid = << <<(<<>>), (<<"b">>)>>, <<(<<"a">>), (<<>>)>> >>

-----------------------------------------------------------------------------
(* C7 *)

\* the TABLE has a CHILD id that stands for a CELL block
HasCell(tbl) ==
    \E i \in 1..Len(IdsOfType(tbl, "CHILD")) :
        /\ Carried(IdsOfType(tbl, "CHILD")[i])
        /\ BlockOf(IdsOfType(tbl, "CHILD")[i]).BlockType = "CELL"

TablesWithCells ==
    SelectSeq(TableBlocks(all_blocks), HasCell)

\* C7: parse_tables emits exactly one grid for each TABLE block that has a
\* CHILD id resolving to a CELL block, and none for any other TABLE.
C7_OneGridPerTable ==
    pc \in {"done", "raised"} =>
        /\ pc = "done"
        /\ Len(dataframes) = Len(TablesWithCells)

-----------------------------------------------------------------------------
(* C11 *)

\* the positions of the LINE blocks with non-empty text, and the n-th of them
KeptLines ==
    {i \in 1..Len(all_blocks) :
        all_blocks[i].BlockType = "LINE" /\ all_blocks[i].Text # <<>>}
NthKeptLine(n) ==
    CHOOSE i \in KeptLines : Cardinality({j \in KeptLines : j < i}) = n - 1

\* s.split("\n") for a non-empty s
RECURSIVE SplitLines(_, _)
SplitLines(s, cur) ==
    IF s = <<>> THEN <<cur>>
    ELSE IF Head(s) = "\n" THEN <<cur>> \o SplitLines(Tail(s), <<>>)
    ELSE SplitLines(Tail(s), Append(cur, Head(s)))

\* C11: extract_lines returns the texts of exactly the LINE blocks with
\* non-empty text, in input order, joined by newlines; equal lines are all
\* kept.
C11_LinesInOrder ==
    pc # "start" =>
        IF KeptLines = {} THEN text = <<>>
        ELSE SplitLines(text, <<>>) =
                 [n \in 1..Cardinality(KeptLines) |->
                     all_blocks[NthKeptLine(n)].Text]

\* lines "a", "b", "a": the repeated line is returned twice
C11_Witness ==
    /\ pc # "start"
    /\ all_blocks = <<Line("l1", <<"a">>), Line("l2", <<"b">>),
                      Line("l1", <<"a">>)>>
    /\ text = <<"a", "\n", "b", "\n", "a">>

-----------------------------------------------------------------------------
(* C12 *)

\* the Ids occurring in the input
OccurringIds ==
    {all_blocks[i].Id[1] : i \in {j \in 1..Len(all_blocks) :
                                      all_blocks[j].Id # <<>>}}

\* two blocks of the input that differ carry the same Id
RepeatedId ==
    \E i, j \in 1..Len(all_blocks) :
        /\ i < j
        /\ all_blocks[i].Id # <<>>
        /\ all_blocks[i].Id = all_blocks[j].Id
        /\ all_blocks[i] # all_blocks[j]

\* C12: the index built by _block_map has exactly the Ids occurring in the
\* input as its keys, maps each of them to the last block in input order that
\* carries it, and holds no block without an Id.
C12_LastWriteWins ==
    pc # "start" =>
        LET id_map == _block_map(all_blocks)
        IN  /\ DOMAIN id_map = OccurringIds
            /\ \A id \in DOMAIN id_map :
                   /\ id_map[id] = BlockOf(id)
                   /\ id_map[id].Id = <<id>>
            /\ \A i \in 1..Len(all_blocks) :
                   all_blocks[i].Id = <<>> =>
                       \A id \in DOMAIN id_map : id_map[id] # all_blocks[i]

\* the Id "v1" is carried by two different VALUE blocks: the index holds the
\* later one
C12_Witness ==
    /\ pc # "start"
    /\ RepeatedId
    /\ Len(all_blocks) > 4
    /\ Last(all_blocks).Id = <<"v1">>
    /\ all_blocks[Len(all_blocks) - 4].Id = <<"v1">>
    /\ _block_map(all_blocks)["v1"] = Last(all_blocks)
    /\ _block_map(all_blocks)["v1"] # all_blocks[Len(all_blocks) - 4]

-----------------------------------------------------------------------------
(* C16 *)

\* C16: no step of extract_lines, parse_kv_pairs or parse_tables (nor of
\* _block_map and _text_from_block, which they call) changes the input block
\* collection: same blocks, same order, same field values.
C16_InputUnchanged == [][all_blocks' = all_blocks]_vars

\* the three views have been computed in turn on a collection with a TABLE,
\* the last of them appending a frame
C16_Witness ==
    /\ pc = "done"
    /\ dataframes # <<>>
    /\ \E i \in 1..Len(all_blocks) : all_blocks[i].BlockType = "TABLE"

-----------------------------------------------------------------------------
(* The pipeline: the ingest handler starts a Textract job for an uploaded  *)
(* PDF, the callback handler persists the job's responses and a manifest,  *)
(* the result page looks the manifest up and loads the blocks.  Keys, URIs *)
(* and timestamps are strings (sequences of characters), built and taken   *)
(* apart as the code does.                                                 *)

\* Bounds of the explored runs
\* the clock stops at MaxTime
MaxTime == 1
\* ticks of the clock in one day: the date of an audit key changes every
\* DayLength ticks
DayLength == 1
\* largest number of Textract jobs started
MaxJobs == 2
\* largest number of responses Textract holds for one job
MaxPages == 2
\* scan_limit of the lookup (MaxKeys of its one listing call); the objects
\* of two persisted jobs exceed it, as those of a used bucket exceed the 800
\* of the source
scan_limit == 3

\* str.startswith, str.endswith
StartsWith(s, p) == Len(s) >= Len(p) /\ SubSeq(s, 1, Len(p)) = p
EndsWith(s, p) == Len(s) >= Len(p) /\ SubSeq(s, Len(s) - Len(p) + 1, Len(s)) = p

\* str.lower(), on the letters the explored keys hold
Lower(s) ==
    [i \in 1..Len(s) |->
        CASE s[i] = "P" -> "p" [] s[i] = "D" -> "d" [] s[i] = "F" -> "f"
          [] OTHER -> s[i]]

\* str.rstrip("/")
RECURSIVE RStripSlash(_)
RStripSlash(s) ==
    IF s # <<>> /\ s[Len(s)] = "/" THEN RStripSlash(SubSeq(s, 1, Len(s) - 1))
    ELSE s

\* head and tail of s.partition(sep) for a one-character sep
RECURSIVE PartitionAt(_, _, _)
PartitionAt(s, sep, head) ==
    IF s = <<>> THEN <<head, <<>>>>
    ELSE IF Head(s) = sep THEN <<head, Tail(s)>>
    ELSE PartitionAt(Tail(s), sep, Append(head, Head(s)))

\* f"{i:04d}"
RECURSIVE ZeroPad(_, _)
ZeroPad(s, width) == IF Len(s) >= width THEN s ELSE ZeroPad(<<"0">> \o s, width)

\* the characters of the keys, in the order of their codes
Ascii ==
    <<".", "/", "0", "1", "2", "3", "4", "5", "6", "7", "8", "9", "D", "F", "P", "_", "a", "b", "c", "d", "e", "f", "g", "h", "i", "j", "k", "l", "m", "n", "o", "p", "q", "r", "s", "t", "u", "v", "w", "x", "y", "z">>
Ord(c) == CHOOSE i \in 1..Len(Ascii) : Ascii[i] = c

\* a < b for two strings, as S3 orders keys
RECURSIVE KeyLess(_, _)
KeyLess(a, b) ==
    IF b = <<>> THEN FALSE
    ELSE IF a = <<>> THEN TRUE
    ELSE IF Head(a) = Head(b) THEN KeyLess(Tail(a), Tail(b))
    ELSE Ord(Head(a)) < Ord(Head(b))

-----------------------------------------------------------------------------
(* Settings *)

s3_bucket == <<"b">>
policy_pdf_prefix == <<"p">>
policy_output_prefix == <<"o", "/">>

-----------------------------------------------------------------------------
(* file_utils *)

is_pdf_key(object_key) == EndsWith(Lower(object_key), <<".", "p", "d", "f">>)

\* is_under_prefix without the "/" that closes the prefix
StartsWithPrefix(object_key, expected_prefix) ==
    StartsWith(object_key, expected_prefix)

is_under_prefix(object_key, expected_prefix) ==
    LET p == IF EndsWith(expected_prefix, <<"/">>) THEN expected_prefix
             ELSE expected_prefix \o <<"/">>
    IN  StartsWith(object_key, p)

-----------------------------------------------------------------------------
(* S3 *)

\* put_object: the object under the key is created, or replaced as a whole
PutObject(st, key, body, t) ==
    [k \in DOMAIN st \cup {key} |->
        IF k = key THEN [Body |-> body, LastModified |-> t] ELSE st[k]]

\* the URI put_bytes and put_json return
Uri(bucket, key) == <<"s", "3", ":", "/", "/">> \o bucket \o <<"/">> \o key

\* the keys of a set in ascending order
RECURSIVE KeysInOrder(_)
KeysInOrder(S) ==
    IF S = {} THEN <<>>
    ELSE LET k == CHOOSE k \in S : \A o \in S \ {k} : KeyLess(k, o)
         IN  <<k>> \o KeysInOrder(S \ {k})

\* one call of list_objects_v2: the first max_keys keys under the prefix, in
\* key order
list_objects_v2(st, prefix, max_keys) ==
    LET keys == KeysInOrder({k \in DOMAIN st : StartsWith(k, prefix)})
        n    == IF Len(keys) < max_keys THEN Len(keys) ELSE max_keys
    IN  [i \in 1..n |->
            [Key |-> keys[i], LastModified |-> st[keys[i]].LastModified]]

\* contents.sort(key=LastModified, reverse=True): a stable sort
RECURSIVE SortRecent(_)
SortRecent(contents) ==
    IF contents = <<>> THEN <<>>
    ELSE LET i == CHOOSE i \in 1..Len(contents) :
                      /\ \A j \in 1..Len(contents) :
                             contents[j].LastModified <= contents[i].LastModified
                      /\ \A j \in 1..(i - 1) :
                             contents[j].LastModified < contents[i].LastModified
         IN  <<contents[i]>>
             \o SortRecent(SubSeq(contents, 1, i - 1)
                           \o SubSeq(contents, i + 1, Len(contents)))

list_recent_objects(st, prefix, max_keys) ==
    SortRecent(list_objects_v2(st, prefix, max_keys))

\* None is <<>>, a result (key, manifest) is a sequence of one record
find_matching_manifest(st, output_prefix, source_key, limit) ==
    LET objects == list_recent_objects(st, output_prefix, limit)
        hits == {i \in 1..Len(objects) :
                    /\ EndsWith(objects[i].Key, <<"i", "n", "d", "e", "x", ".", "j", "s", "o", "n">>)
                    /\ st[objects[i].Key].Body.source_key = source_key}
    IN  IF hits = {} THEN <<>>
        ELSE LET i == CHOOSE i \in hits : \A j \in hits : i <= j
             IN  <<[key |-> objects[i].Key,
                    manifest |-> st[objects[i].Key].Body]>>

\* load_all_blocks_from_pages reading the listed pages last to first
RECURSIVE LoadPagesLastFirst(_, _)
LoadPagesLastFirst(st, page_uris) ==
    IF page_uris = <<>> THEN [raised |-> FALSE, blocks |-> <<>>]
    ELSE LET uri  == page_uris[Len(page_uris)]
             rest == LoadPagesLastFirst(st, SubSeq(page_uris, 1, Len(page_uris) - 1))
             key  == PartitionAt(SubSeq(uri, 6, Len(uri)), "/", <<>>)[2]
         IN  IF key \notin DOMAIN st THEN [raised |-> TRUE, blocks |-> <<>>]
             ELSE [raised |-> rest.raised,
                   blocks |-> Get(st[key].Body.Blocks, <<>>) \o rest.blocks]

\* for uri in page_uris: get_object raises for a bucket or key that does not
\* exist
RECURSIVE LoadPages(_, _, _)
LoadPages(st, page_uris, blocks) ==
    IF page_uris = <<>> THEN [raised |-> FALSE, blocks |-> blocks]
    ELSE LET uri == Head(page_uris)
         IN  IF ~StartsWith(uri, <<"s", "3", ":", "/", "/">>)
               THEN LoadPages(st, Tail(page_uris), blocks)
             ELSE LET rest  == SubSeq(uri, Len(<<"s", "3", ":", "/", "/">>) + 1, Len(uri))
                      parts == PartitionAt(rest, "/", <<>>)
                      bkt   == parts[1]
                      key   == parts[2]
                  IN  IF bkt # s3_bucket \/ key \notin DOMAIN st
                        THEN [raised |-> TRUE, blocks |-> blocks]
                      ELSE LoadPages(st, Tail(page_uris),
                                     blocks \o Get(st[key].Body.Blocks, <<>>))

load_all_blocks_from_pages(st, page_uris) == LoadPages(st, page_uris, <<>>)

-----------------------------------------------------------------------------
(* Textract *)

\* the JobId of the n-th job started
JobId(n) == <<"j">> \o Digits(n)

\* the NextToken that stands for the p-th response of a job
Token(p) == Digits(p)

\* the Blocks of the p-th response of the n-th job: two, one or no block
BlocksOfPage(n, p) ==
    [k \in 1..((n + 2 * p + 2) % 3) |-> Line(<<n, p, k>>, <<"a">>)]

\* get_document_text_detection(JobId, NextToken): the response that follows
\* the token, with a NextToken unless it is the last; a response without
\* blocks has no "Blocks"
GetDocumentTextDetection(n, token, pages) ==
    LET p == IF token = <<>> THEN 1
             ELSE CHOOSE q \in 1..pages : Token(q) = token[1]
    IN  [Blocks    |-> IF BlocksOfPage(n, p) = <<>> THEN <<>>
                       ELSE <<BlocksOfPage(n, p)>>,
         NextToken |-> IF p < pages THEN <<Token(p + 1)>> ELSE <<>>]

\* get_document_analysis(JobId, NextToken): the same pagination; every
\* response holds a TABLE block after the blocks of the text
GetDocumentAnalysis(n, token, pages) ==
    LET r == GetDocumentTextDetection(n, token, pages)
        p == IF token = <<>> THEN 1
             ELSE CHOOSE q \in 1..pages : Token(q) = token[1]
    IN  [r EXCEPT !.Blocks =
                      <<Get(@, <<>>) \o <<Table(<< <<n, p, 0>> >>, <<>>)>>>>]

-----------------------------------------------------------------------------
(* Auditor *)

audit_base == <<"p", "o", "l", "i", "c", "y", "/", "a", "u", "d", "i", "t">>

\* the day of the clock
Day(t) == t \div DayLength

\* f"{base}/{y}/{m}/{d}/events.jsonl", the date being one number here
AuditKey(t) == audit_base \o <<"/">> \o Digits(Day(t)) \o <<"/", "e", "v", "e", "n", "t", "s", ".", "j", "s", "o", "n", "l">>

IngestStartEvent(t, key, job_id) ==
    [ts |-> t, stage |-> "ingest_start", key |-> key, status |-> "STARTED",
     job_id |-> job_id, mode |-> "text"]

IngestCompleteEvent(t, key, job_id) ==
    [ts |-> t, stage |-> "ingest_complete", key |-> key, status |-> "SUCCESS",
     job_id |-> job_id, output_prefix |-> policy_output_prefix]

\* write_event: one object of one line is put under the key of the day
write_event(st, t, event) == PutObject(st, AuditKey(t), [line |-> event], t)

-----------------------------------------------------------------------------
(* ResultPersistor *)

\* strftime("%Y%m%dT%H%M%SZ"): one string of fixed width per second
Stamp(t) == Digits(t)

\* f"{self._out}/{ts}/{job_id}"
BasePrefix(ts, job_id) ==
    RStripSlash(policy_output_prefix) \o <<"/">> \o ts \o <<"/">> \o job_id

\* f"{base_prefix}/pages/page_{i:04d}.json"
PageKey(ts, job_id, i) ==
    BasePrefix(ts, job_id) \o <<"/", "p", "a", "g", "e", "s", "/", "p", "a", "g", "e", "_">> \o ZeroPad(Digits(i), 4)
    \o <<".", "j", "s", "o", "n">>

IndexKey(ts, job_id) == BasePrefix(ts, job_id) \o <<"/", "i", "n", "d", "e", "x", ".", "j", "s", "o", "n">>

Manifest(job_id, source_key, page_uris, ts) ==
    [job_id |-> job_id, source_key |-> source_key, pages |-> page_uris,
     created_utc |-> ts]

-----------------------------------------------------------------------------
(* The ingest handler: PolicyPipeline.validate_and_start on the key of an  *)
(* S3 event                                                                *)

\* the state of the result view, which the pipeline leaves alone
view_vars == <<pc, text, kv_i, key_text, val_text, pairs, kv_pairs, pt_i,
               cells, grid, dataframes>>

\* the keys of the explored S3 events
IngestKeys ==
    {<<"p", "/", "a", ".", "p", "d", "f">>, <<"p", "/", "b", ".", "P", "D", "F">>, <<"q", "/", "a", ".", "p", "d", "f">>, <<"p", "a", ".", "p", "d", "f">>, <<"p", "/", "a", ".", "t", "x", "t">>}

\* the two tests of validate_and_start
KeyAccepted(object_key) ==
    /\ is_under_prefix(object_key, policy_pdf_prefix)
    /\ is_pdf_key(object_key)

\* ValidationError is raised; the handler returns "validation_failed"
IngestRejected ==
    /\ ingest.phase = "idle"
    /\ \E k \in IngestKeys :
         /\ ~KeyAccepted(k)
         /\ ingest' = [phase |-> "idle", key |-> k, job_id |-> <<>>,
                       outcome |-> "ValidationError"]
    /\ UNCHANGED <<store, now, jobs, written, cb, ui, all_blocks, view_vars, gen>>

\* start_text_detection: a job is started, or TextractJobError is raised
IngestStart ==
    /\ ingest.phase = "idle"
    /\ Len(jobs) < MaxJobs
    /\ \E k \in IngestKeys, started \in BOOLEAN, pages \in 1..MaxPages :
         /\ KeyAccepted(k)
         /\ IF started
              THEN /\ jobs' = Append(jobs, [key |-> k, pages |-> pages])
                   /\ ingest' = [phase |-> "audit", key |-> k,
                                 job_id |-> <<JobId(Len(jobs) + 1)>>,
                                 outcome |-> "none"]
              ELSE /\ jobs' = jobs
                   /\ ingest' = [phase |-> "idle", key |-> k, job_id |-> <<>>,
                                 outcome |-> "TextractJobError"]
    /\ UNCHANGED <<store, now, written, cb, ui, all_blocks, view_vars, gen>>

\* the ingest_start event is written and IngestResult returned, or
\* ResultPersistError is raised
IngestAudit ==
    /\ ingest.phase = "audit"
    /\ \E ok \in BOOLEAN :
         IF ok
           THEN LET e == IngestStartEvent(now, ingest.key, ingest.job_id[1])
                IN  /\ store' = write_event(store, now, e)
                    /\ written' = Append(written, e)
                    /\ ingest' = [ingest EXCEPT !.phase = "idle",
                                                !.outcome = "IngestResult"]
           ELSE /\ UNCHANGED <<store, written>>
                /\ ingest' = [ingest EXCEPT !.phase = "idle",
                                            !.outcome = "ResultPersistError"]
    /\ UNCHANGED <<now, jobs, cb, ui, all_blocks, view_vars, gen>>

\* a second passes; a handler runs within one second of the clock
Tick ==
    /\ now < MaxTime
    /\ ingest.phase = "idle"
    /\ cb.phase = "idle"
    /\ now' = now + 1
    /\ UNCHANGED <<store, jobs, written, ingest, cb, ui, all_blocks, view_vars, gen>>

-----------------------------------------------------------------------------
(* The callback handler: PolicyPipeline.fetch_and_persist on a SUCCEEDED   *)
(* notification                                                            *)

\* msg.get("Status"): absent, or one of the values Textract sends
Statuses == {<<>>, <<"SUCCEEDED">>, <<"FAILED">>, <<"PARTIAL_SUCCESS">>}

\* the number of the job a JobId names
JobNo(job_id) == CHOOSE n \in 1..Len(jobs) : JobId(n) = job_id

\* the tests of the handler, with every status but FAILED taken as a success
BranchUnlessFailed(status, job_id) ==
    IF status = <<"FAILED">> THEN "ignored"
    ELSE IF job_id = <<>> THEN "TextractJobError"
    ELSE "persist"

\* if status != "SUCCEEDED": return ignored; if not job_id: raise; else
\* fetch_and_persist
HandlerBranch(status, job_id) ==
    IF status # <<"SUCCEEDED">> THEN "ignored"
    ELSE IF job_id = <<>> THEN "TextractJobError"
    ELSE "persist"

\* the handler up to its call of fetch_and_persist, whose first statements
\* (the generator is created, ts is taken) are part of the step.  The
\* message names a started job, with its DocumentLocation, or no job; the
\* SUCCEEDED notification of a job is delivered once.
CallbackReceive ==
    /\ cb.phase = "idle"
    /\ \E status \in Statuses,
          job_id \in {<<>>} \cup {<<JobId(n)>> : n \in 1..Len(jobs)} :
         LET source_key == IF job_id # <<>> THEN jobs[JobNo(job_id[1])].key
                           ELSE <<"<", "u", "n", "k", "n", "o", "w", "n", ">">>
             read == [IdleCallback EXCEPT !.status = status,
                                          !.job_id = job_id,
                                          !.source_key = source_key,
                                          !.handled = cb.handled]
             branch == HandlerBranch(status, job_id)
         IN  /\ branch = "persist" => JobNo(job_id[1]) \notin cb.handled
             /\ cb' = IF branch # "persist"
                        THEN [read EXCEPT !.outcome = branch]
                      ELSE [read EXCEPT !.phase = "pages",
                                        !.ts = Stamp(now),
                                        !.more = TRUE,
                                        !.handled =
                                            cb.handled \cup {JobNo(job_id[1])}]
    /\ UNCHANGED <<store, now, jobs, written, ingest, ui, all_blocks, view_vars,
                   gen>>

\* persist_text_results passing over a page that could not be fetched or
\* put: the page is listed and the loop left
PageFailureSwallowed(c, where) ==
    IF where \in {"fetch", "page"}
      THEN [c EXCEPT !.page_uris =
                         Append(@, Uri(s3_bucket,
                                       PageKey(c.ts, c.job_id[1], Len(@) + 1))),
                     !.more = FALSE]
      ELSE [c EXCEPT !.phase = "idle", !.outcome = "ResultPersistError",
                     !.failed = where]

\* the except clause of persist_text_results
PersistFailed(c, where) ==
    [c EXCEPT !.phase = "idle", !.outcome = "ResultPersistError",
              !.failed = where]

\* one pass of "for i, page in enumerate(pages, start=1)": the generator
\* fetches the next response, the page object is put, its URI appended
PersistPage ==
    /\ cb.phase = "pages"
    /\ cb.more
    /\ \E outcome \in {"stored", "fetch_failed", "put_failed"} :
         LET n    == JobNo(cb.job_id[1])
             resp == GetDocumentTextDetection(n, cb.token, jobs[n].pages)
             key  == PageKey(cb.ts, cb.job_id[1], Len(cb.page_uris) + 1)
         IN  CASE outcome = "stored" ->
                    /\ store' = PutObject(store, key, resp, now)
                    /\ cb' = [cb EXCEPT
                                !.fetched = @ + 1,
                                !.page_uris = Append(@, Uri(s3_bucket, key)),
                                !.token = resp.NextToken,
                                !.more = resp.NextToken # <<>>]
               [] outcome = "fetch_failed" ->
                    /\ store' = store
                    /\ cb' = PersistFailed(cb, "fetch")
               [] outcome = "put_failed" ->
                    /\ store' = store
                    /\ cb' = PersistFailed([cb EXCEPT !.fetched = @ + 1], "page")
    /\ UNCHANGED <<now, jobs, written, ingest, ui, all_blocks, view_vars, gen>>

\* the generator is exhausted: index.json is put
PersistIndex ==
    /\ cb.phase = "pages"
    /\ ~cb.more
    /\ \E ok \in BOOLEAN :
         IF ok
           THEN /\ store' = PutObject(store, IndexKey(cb.ts, cb.job_id[1]),
                                      Manifest(cb.job_id[1], cb.source_key,
                                               cb.page_uris, cb.ts),
                                      now)
                /\ cb' = [cb EXCEPT !.phase = "audit"]
           ELSE /\ store' = store
                /\ cb' = PersistFailed(cb, "index")
    /\ UNCHANGED <<now, jobs, written, ingest, ui, all_blocks, view_vars, gen>>

\* the ingest_complete event is written and the handler returns "ok", or
\* ResultPersistError is raised
CallbackAudit ==
    /\ cb.phase = "audit"
    /\ \E ok \in BOOLEAN :
         IF ok
           THEN LET e == IngestCompleteEvent(now, cb.source_key, cb.job_id[1])
                IN  /\ store' = write_event(store, now, e)
                    /\ written' = Append(written, e)
                    /\ cb' = [cb EXCEPT !.phase = "idle", !.outcome = "ok"]
           ELSE /\ UNCHANGED <<store, written>>
                /\ cb' = PersistFailed(cb, "audit")
    /\ UNCHANGED <<now, jobs, ingest, ui, all_blocks, view_vars, gen>>

-----------------------------------------------------------------------------
(* The result page: one poll of find_matching_manifest, and the load of    *)
(* the pages of the manifest found                                         *)

\* f"{cfg['POLICY_PDF_PREFIX']}{filename}" for the explored uploads
UploadKeys == {<<"p", "/", "a", ".", "p", "d", "f">>, <<"p", "/", "b", ".", "P", "D", "F">>}

\* one poll of the loop; the script has been rerun, all_blocks is not bound
FindManifest ==
    /\ \E k \in UploadKeys :
         ui' = [source_key |-> k,
                found |-> find_matching_manifest(store, policy_output_prefix,
                                                 k, scan_limit),
                loaded |-> "no"]
    /\ all_blocks' = <<>>
    /\ UNCHANGED <<store, now, jobs, written, ingest, cb, view_vars, gen>>

LoadBlocks ==
    /\ ui.found # <<>>
    /\ ui.loaded = "no"
    /\ ui.found[1].manifest.pages # <<>>
    /\ LET r == load_all_blocks_from_pages(store, ui.found[1].manifest.pages)
       IN  IF r.raised
             THEN /\ all_blocks' = all_blocks
                  /\ ui' = [ui EXCEPT !.loaded = "raised"]
             ELSE /\ all_blocks' = r.blocks
                  /\ ui' = [ui EXCEPT !.loaded = "yes"]
    /\ UNCHANGED <<store, now, jobs, written, ingest, cb, view_vars, gen>>

-----------------------------------------------------------------------------
(* The explored runs: the ingest handler on a sequence of S3 events, and   *)
(* the callback handler and the result page on the jobs of two uploads     *)

\* the result view has not run
ViewAtRest ==
    /\ all_blocks = <<>>
    /\ pc = "start"
    /\ text = <<>>
    /\ kv_i = 0
    /\ key_text = <<>>
    /\ val_text = <<>>
    /\ pairs = <<>>
    /\ kv_pairs = <<>>
    /\ pt_i = 0
    /\ cells = <<>>
    /\ grid = <<>>
    /\ dataframes = <<>>

IngestInit == PipelineAtRest /\ ViewAtRest

IngestNext ==
    \/ IngestRejected
    \/ IngestStart
    \/ IngestAudit
    \/ Tick

Ingest == IngestInit /\ [][IngestNext]_vars

\* two uploads have been ingested at time 0: the job of the first holds
\* MaxPages responses, the job of the second, under the same key or another,
\* holds one
ResultsInit ==
    /\ ViewAtRest
    /\ now = 0
    /\ cb = IdleCallback
    /\ ui = IdleLookup
    /\ gen = NoGenerator
    /\ \E k \in UploadKeys :
         LET e1 == IngestStartEvent(0, <<"p", "/", "a", ".", "p", "d", "f">>, JobId(1))
             e2 == IngestStartEvent(0, k, JobId(2))
         IN  /\ jobs = <<[key |-> <<"p", "/", "a", ".", "p", "d", "f">>,
                          pages |-> MaxPages],
                         [key |-> k, pages |-> 1]>>
             /\ written = <<e1, e2>>
             /\ store = write_event(write_event(<<>>, 0, e1), 0, e2)
             /\ ingest = [phase |-> "idle", key |-> k, job_id |-> <<JobId(2)>>,
                          outcome |-> "IngestResult"]

ResultsNext ==
    \/ Tick
    \/ CallbackReceive
    \/ PersistPage
    \/ PersistIndex
    \/ CallbackAudit
    \/ FindManifest
    \/ LoadBlocks

Results == ResultsInit /\ [][ResultsNext]_vars

-----------------------------------------------------------------------------
(* The result generators of TextractClient, get_text_results and           *)
(* get_analysis_results, each iterated to its end by a for loop            *)

\* the largest number of responses of a job
MaxResponses == 3

\* the NextToken of the last response of a job: no key, or an empty string
LastTokens == {<<>>, << <<>> >>}

\* "not token": None and the empty string
NotToken(token) == token = <<>> \/ token[1] = <<>>

\* the arguments of a request that never carries a NextToken
FirstPageArgs(job_id, token) == [JobId |-> job_id, NextToken |-> <<>>]

\* args = {"JobId": job_id}; if token: args["NextToken"] = token
RequestArgs(job_id, token) ==
    [JobId |-> job_id, NextToken |-> IF NotToken(token) THEN <<>> ELSE token]

\* self._client.get_document_text_detection(**args), or
\* get_document_analysis(**args), on a job of so many responses whose last
\* response holds the NextToken "last"
Respond(api, args, pages, last) ==
    LET n == CHOOSE n \in 1..MaxJobs : JobId(n) = args.JobId
        r == IF api = "text"
               THEN GetDocumentTextDetection(n, args.NextToken, pages)
             ELSE GetDocumentAnalysis(n, args.NextToken, pages)
    IN  IF r.NextToken = <<>> THEN [r EXCEPT !.NextToken = last] ELSE r

\* the errors of the service and of the connection that boto3 raises
ServiceErrors == {"ClientError", "BotoCoreError"}

\* the generator function is called: a generator is made, no statement of
\* its body has run.  The generator made before has been iterated to its end.
MakeGenerator ==
    /\ gen.phase \in {"none", "done", "raised"}
    /\ \E api \in {"text", "analysis"}, n \in 1..MaxJobs,
          pages \in 1..MaxResponses, last \in LastTokens :
         gen' = [NoGenerator EXCEPT !.phase = "created", !.api = api,
                                    !.job_id = <<JobId(n)>>, !.pages = pages,
                                    !.last = last]
    /\ UNCHANGED <<store, now, jobs, written, ingest, cb, ui, all_blocks,
                   view_vars>>

\* next() on the generator.  From its start: token = None, a request, yield.
\* From the yield: token = resp.get("NextToken"); without a token the loop
\* is left and the generator returns, else a request, yield.  A request that
\* raises ClientError or BotoCoreError makes the generator raise
\* TextractJobError from it.
Resume ==
    /\ gen.phase \in {"created", "suspended"}
    /\ LET token == IF gen.phase = "created" THEN <<>>
                    ELSE gen.yielded[Len(gen.yielded)].NextToken
           args  == RequestArgs(gen.job_id[1], token)
       IN  IF gen.phase = "suspended" /\ NotToken(token)
             THEN gen' = [gen EXCEPT !.phase = "done", !.token = token,
                                     !.outcome = "StopIteration"]
           ELSE \E error \in {"none"} \cup ServiceErrors :
                  gen' = IF error = "none"
                           THEN [gen EXCEPT
                                   !.phase = "suspended",
                                   !.token = token,
                                   !.requests = Append(@, args),
                                   !.yielded =
                                       Append(@, Respond(gen.api, args,
                                                         gen.pages, gen.last))]
                         ELSE [gen EXCEPT
                                 !.phase = "raised",
                                 !.token = token,
                                 !.requests = Append(@, args),
                                 !.outcome = "TextractJobError",
                                 !.cause = error]
    /\ UNCHANGED <<store, now, jobs, written, ingest, cb, ui, all_blocks,
                   view_vars>>

PaginateInit == PipelineAtRest /\ ViewAtRest

PaginateNext ==
    \/ MakeGenerator
    \/ Resume

\* the for loop that iterates the generator asks for the next response as
\* long as there is one
Paginate == PaginateInit /\ [][PaginateNext]_vars /\ WF_vars(Resume)

-----------------------------------------------------------------------------
(* C13 *)

\* C13: the callback handler fetches and persists only for a notification
\* whose Status is SUCCEEDED.  For every other status (FAILED, another
\* value, none) it returns "ignored", and no response is fetched, no page or
\* manifest object written and no audit event written; whenever a response
\* is fetched, an object put or an event written, the notification handled
\* is a SUCCEEDED one.
C13_OnlySucceededPersists ==
    [][/\ (cb' # cb /\ cb'.status # <<"SUCCEEDED">>) =>
            /\ cb'.outcome = "ignored"
            /\ cb'.phase = "idle"
            /\ cb'.fetched = 0
            /\ store' = store
            /\ written' = written
       /\ (store' # store \/ written' # written \/ cb'.fetched > cb.fetched
           \/ cb'.phase \in {"pages", "audit"}) =>
            cb'.status = <<"SUCCEEDED">>]_vars

\* a FAILED notification of a started job has been ignored while the bucket
\* holds no object under the output prefix
C13_Witness ==
    /\ cb.outcome = "ignored"
    /\ cb.status = <<"FAILED">>
    /\ cb.job_id = <<JobId(1)>>
    /\ \A k \in DOMAIN store : ~StartsWith(k, policy_output_prefix)

-----------------------------------------------------------------------------
(* Vocabulary of the properties of the pipeline *)

\* the objects under the output prefix that are manifests
IndexKeys ==
    {k \in DOMAIN store : /\ StartsWith(k, policy_output_prefix)
                          /\ EndsWith(k, <<"i", "n", "d", "e", "x", ".", "j", "s", "o", "n">>)}

\* the key a URI of the bucket names
KeyOfUri(uri) == SubSeq(uri, Len(<<"s", "3", ":", "/", "/">>) + Len(s3_bucket) + 2, Len(uri))

\* the p-th response of the pagination of the n-th job
ResponseNo(n, p) ==
    GetDocumentTextDetection(n, IF p = 1 THEN <<>> ELSE <<Token(p)>>,
                             jobs[n].pages)

\* the blocks of the responses of the n-th job, in pagination order
BlocksOfJob(n) == Flatten([p \in 1..jobs[n].pages |-> BlocksOfPage(n, p)])

-----------------------------------------------------------------------------
(* C14 *)

\* C14: page order is preserved end to end.  The pages list of every stored
\* manifest holds, at position i, the locator of the object that holds the
\* i-th response of the pagination of its job, and the blocks loaded from a
\* manifest are the blocks of those responses in pagination order, with the
\* order inside each response unchanged.
C14_PageOrderPreserved ==
    /\ \A k \in IndexKeys :
         LET m == store[k].Body
             n == JobNo(m.job_id)
         IN  /\ Len(m.pages) = jobs[n].pages
             /\ \A i \in 1..Len(m.pages) :
                    /\ KeyOfUri(m.pages[i]) \in DOMAIN store
                    /\ store[KeyOfUri(m.pages[i])].Body = ResponseNo(n, i)
    /\ ui.loaded # "raised"
    /\ ui.loaded = "yes" =>
           all_blocks = BlocksOfJob(JobNo(ui.found[1].manifest.job_id))

\* the blocks of the two responses of the first job have been loaded: two of
\* the first response, then one of the second
C14_Witness ==
    /\ ui.loaded = "yes"
    /\ ui.found[1].manifest.job_id = JobId(1)
    /\ Len(ui.found[1].manifest.pages) = 2
    /\ all_blocks = <<Line(<<1, 1, 1>>, <<"a">>), Line(<<1, 1, 2>>, <<"a">>),
                      Line(<<1, 2, 1>>, <<"a">>)>>

-----------------------------------------------------------------------------
(* C17 *)

\* the event is a line of some object of the audit trail
InAuditTrail(event) ==
    \E k \in DOMAIN store :
        /\ StartsWith(k, audit_base \o <<"/">>)
        /\ store[k].Body.line = event

\* C17: the audit trail is append-only: every event whose write_event has
\* succeeded is still in the audit trail, whatever was written after it.
C17_AuditAppendOnly ==
    \A i \in 1..Len(written) : InAuditTrail(written[i])

-----------------------------------------------------------------------------
(* C18 *)

\* the explored keys that lie under the PDF prefix and end in .pdf, in any
\* case
UnderPrefixAndPdf == {<<"p", "/", "a", ".", "p", "d", "f">>, <<"p", "/", "b", ".", "P", "D", "F">>}

\* C18: a call of validate_and_start on a key that is not under the PDF
\* prefix or does not end in .pdf raises ValidationError, starts no job and
\* writes no audit event.  A call that returns an IngestResult has started
\* exactly one job, for its key, and has then written exactly one event, an
\* ingest_start event that carries the id of that job.
C18_ValidateThenStartThenAudit ==
    [][/\ (ingest.phase = "idle" /\ ingest' # ingest
           /\ ingest'.key \notin UnderPrefixAndPdf) =>
            /\ ingest'.outcome = "ValidationError"
            /\ ingest'.phase = "idle"
            /\ jobs' = jobs
            /\ store' = store
            /\ written' = written
       /\ (ingest.phase = "idle" /\ ingest'.phase = "audit") =>
            /\ ingest'.key \in UnderPrefixAndPdf
            /\ Len(jobs') = Len(jobs) + 1
            /\ SubSeq(jobs', 1, Len(jobs)) = jobs
            /\ jobs'[Len(jobs')].key = ingest'.key
            /\ ingest'.job_id = <<JobId(Len(jobs'))>>
            /\ store' = store
            /\ written' = written
       /\ (ingest' # ingest /\ ingest'.outcome = "IngestResult") =>
            /\ ingest.phase = "audit"
            /\ ingest'.key = ingest.key
            /\ ingest'.job_id = ingest.job_id
            /\ jobs' = jobs
            /\ jobs[JobNo(ingest.job_id[1])].key = ingest.key
            /\ Len(written') = Len(written) + 1
            /\ SubSeq(written', 1, Len(written)) = written
            /\ written'[Len(written')].stage = "ingest_start"
            /\ written'[Len(written')].job_id = ingest.job_id[1]
            /\ written'[Len(written')].key = ingest.key
            /\ \E k \in DOMAIN store' :
                   /\ StartsWith(k, audit_base)
                   /\ store'[k].Body.line = written'[Len(written')]]_vars

\* after one upload was ingested, the key "pa.pdf", which starts with the
\* prefix "p" but is not under "p/", has been rejected
C18_Witness ==
    /\ ingest.outcome = "ValidationError"
    /\ ingest.key = <<"p", "a", ".", "p", "d", "f">>
    /\ Len(jobs) = 1
    /\ jobs[1].key = <<"p", "/", "b", ".", "P", "D", "F">>
    /\ Len(written) = 1
    /\ written[1].job_id = JobId(1)

-----------------------------------------------------------------------------
(* C19 *)

\* the stored manifests whose source_key is the key
MatchingManifests(source_key) ==
    {k \in IndexKeys : store[k].Body.source_key = source_key}

\* what a poll of the result page returns in the current state
Polled(source_key) ==
    find_matching_manifest(store, policy_output_prefix, source_key, scan_limit)

\* C19: whenever a manifest whose source_key equals the requested key is
\* stored under the output prefix, find_matching_manifest returns a
\* manifest, and the one it returns is a matching manifest that none of the
\* matching manifests is more recent than; it returns None only when there
\* is no matching manifest; whatever the number of objects under the prefix.
C19_NewestMatchFound ==
    \A k \in UploadKeys :
        IF MatchingManifests(k) = {} THEN Polled(k) = <<>>
        ELSE /\ Polled(k) # <<>>
             /\ Polled(k)[1].key \in MatchingManifests(k)
             /\ Polled(k)[1].manifest = store[Polled(k)[1].key].Body
             /\ \A m \in MatchingManifests(k) :
                    store[m].LastModified
                        <= store[Polled(k)[1].key].LastModified

-----------------------------------------------------------------------------
(* C20 *)

\* every locator of every stored manifest names a stored object
ManifestPagesExist ==
    \A k \in IndexKeys :
        \A i \in 1..Len(store[k].Body.pages) :
            KeyOfUri(store[k].Body.pages[i]) \in DOMAIN store

\* C20: persist_text_results writes index.json only after every page object
\* it lists has been written: in every state each locator of a stored
\* manifest names an existing object, the step that puts a manifest finds
\* all its pages stored, and a run in which the fetch or the put of a page
\* fails ends in ResultPersistError without a manifest of that run.
C20_ManifestAfterPages ==
    /\ []ManifestPagesExist
    /\ [][/\ \A k \in DOMAIN store' :
                (EndsWith(k, <<"i", "n", "d", "e", "x", ".", "j", "s", "o", "n">>)
                 /\ (k \notin DOMAIN store \/ store'[k] # store[k])) =>
                    /\ k = IndexKey(cb.ts, cb.job_id[1])
                    /\ store'[k].Body.pages = cb.page_uris
                    /\ ~cb.more
                    /\ \A i \in 1..Len(cb.page_uris) :
                           KeyOfUri(cb.page_uris[i]) \in DOMAIN store
          /\ (cb' # cb /\ cb'.failed \in {"fetch", "page"}) =>
                /\ cb'.outcome = "ResultPersistError"
                /\ cb'.phase = "idle"
                /\ store' = store
                /\ IndexKey(cb.ts, cb.job_id[1]) \notin DOMAIN store'
          /\ (cb' # cb /\ cb.phase = "pages" /\ cb'.phase = "pages") =>
                /\ Len(cb'.page_uris) = Len(cb.page_uris) + 1
                /\ KeyOfUri(cb'.page_uris[Len(cb'.page_uris)]) \in DOMAIN store'
                /\ IndexKeys' = IndexKeys]_vars

\* the second response of the first job could not be fetched: its first page
\* is stored, its manifest is not, while the manifest of the second job is
C20_Witness ==
    /\ cb.outcome = "ResultPersistError"
    /\ cb.failed = "fetch"
    /\ cb.job_id = <<JobId(1)>>
    /\ Len(cb.page_uris) = 1
    /\ PageKey(cb.ts, JobId(1), 1) \in DOMAIN store
    /\ IndexKey(cb.ts, JobId(1)) \notin DOMAIN store
    /\ IndexKeys # {}

-----------------------------------------------------------------------------
(* C21 *)

\* the i-th response of the job of the generator, as the service holds it
ResponseOfJob(i) ==
    Respond(gen.api,
            [JobId |-> gen.job_id[1],
             NextToken |-> IF i = 1 THEN <<>> ELSE <<Token(i)>>],
            gen.pages, gen.last)

\* the generator has been made and has not returned or raised
Iterating == gen.phase \in {"created", "suspended"}

\* what was yielded is the responses of the job from the first on, each
\* once; the first request carries no NextToken and every later one the
\* NextToken of the response before it, which is not empty; the generator
\* has returned only after a response without a NextToken, the last of the
\* job, and has raised only TextractJobError, on a request that failed
YieldedInServiceOrder ==
    LET y == gen.yielded
        q == gen.requests
    IN  /\ \A i \in 1..Len(y) : y[i] = ResponseOfJob(i)
        /\ \A i, j \in 1..Len(y) : i # j => y[i] # y[j]
        /\ Len(q) \in {Len(y), Len(y) + 1}
        /\ Len(q) <= gen.pages
        /\ \A i \in 1..Len(q) :
              /\ q[i].JobId = gen.job_id[1]
              /\ q[i].NextToken = IF i = 1 THEN <<>> ELSE y[i - 1].NextToken
              /\ i > 1 => ~NotToken(y[i - 1].NextToken)
        /\ gen.phase = "done" =>
              /\ Len(y) = gen.pages
              /\ Len(q) = Len(y)
              /\ NotToken(y[Len(y)].NextToken)
        /\ gen.phase = "suspended" => Len(q) = Len(y) /\ Len(y) >= 1
        /\ gen.phase = "raised" =>
              /\ gen.outcome = "TextractJobError"
              /\ gen.cause \in ServiceErrors
              /\ Len(q) = Len(y) + 1
        /\ gen.outcome = "TextractJobError" => gen.phase = "raised"

\* C21: get_text_results and get_analysis_results yield each response of
\* the job exactly once and in service order; each request after the first
\* carries the NextToken of the previous response; the iteration ends right
\* after the first response that has no NextToken or an empty one, with no
\* further request; a generator whose job has such a response terminates;
\* and an error of the service during the iteration is raised as
\* TextractJobError.
C21_PaginationInOrder ==
    /\ []YieldedInServiceOrder
    /\ [][(/\ gen.phase = "suspended"
           /\ NotToken(gen.yielded[Len(gen.yielded)].NextToken)
           /\ gen' # gen) =>
              /\ gen'.phase = "done"
              /\ gen'.requests = gen.requests
              /\ gen'.yielded = gen.yielded]_vars
    /\ [][(Iterating /\ gen'.phase = "raised") =>
              /\ gen'.outcome = "TextractJobError"
              /\ gen'.yielded = gen.yielded]_vars
    /\ (Iterating ~> gen.phase \in {"done", "raised"})

\* the generator of get_analysis_results has returned after the three
\* responses of a job whose last response holds an empty NextToken
C21_Witness ==
    /\ gen.phase = "done"
    /\ gen.api = "analysis"
    /\ Len(gen.yielded) = 3
    /\ Len(gen.requests) = 3
    /\ gen.yielded[3].NextToken = << <<>> >>
    /\ gen.requests[3].NextToken = <<Token(3)>>

-----------------------------------------------------------------------------
(* C22 *)

\* the upload made last, which the session of the result page watches: the
\* n-th upload is the one whose S3 event started the n-th job
LastUpload == Len(jobs)

\* the poll shown is a poll for the key of the upload made last
PolledForLastUpload ==
    /\ ui.found # <<>>
    /\ ui.source_key = jobs[LastUpload].key

\* C22: the manifest that a poll for the key of an upload returns, and whose
\* pages are rendered, was produced by the job started for that upload; the
\* manifest of an earlier upload of the same key is never returned for it.
C22_ManifestOfThisUpload ==
    PolledForLastUpload =>
        /\ ui.found[1].manifest.job_id = JobId(LastUpload)
        /\ ui.loaded = "yes" => all_blocks = BlocksOfJob(LastUpload)

====
